---- MODULE Spec2Model ----
(***************************************************************************)
(* The BoltzPay CLI bridge (run_cli / async_run_cli) and the seven tool    *)
(* adapters of the two integration packages, langchain_boltzpay and        *)
(* boltzpay_crewai.                                                        *)
(*                                                                         *)
(* Text is a sequence of tokens.  A token is a run of characters that the  *)
(* code never looks inside; every character the code or the JSON grammar   *)
(* does look at (whitespace, JSON punctuation, quote, backslash, digits of *)
(* a number, the letter after a backslash) is a token of its own.          *)
(* Command-line arguments are atomic strings.                              *)
(***************************************************************************)
EXTENDS Integers, Sequences, FiniteSets, TLC

(***************************************************************************)
(* Python str helpers                                                      *)
(***************************************************************************)

\* Characters str.strip() removes (a form feed stands for the ones that are
\* whitespace to Python but not to JSON).
PyWhitespace == {" ", "\n", "\t", "\r", "\f"}

\* Characters json.loads skips between tokens.
JsonWhitespace == {" ", "\n", "\t", "\r"}

RECURSIVE LStrip(_)
LStrip(s) ==
  IF s # <<>> /\ Head(s) \in PyWhitespace THEN LStrip(Tail(s)) ELSE s

RECURSIVE RStrip(_)
RStrip(s) ==
  IF s # <<>> /\ s[Len(s)] \in PyWhitespace
    THEN RStrip(SubSeq(s, 1, Len(s) - 1))
    ELSE s

\* str.strip()
Strip(s) == RStrip(LStrip(s))

\* What subprocess.run(..., text=True) hands over of the bytes the child
\* wrote: the text with "\r\n" and "\r" turned into "\n".
RECURSIVE TextMode(_)
TextMode(b) ==
  IF b = <<>> THEN <<>>
  ELSE IF Head(b) = "\r"
    THEN <<"\n">> \o TextMode(IF Len(b) > 1 /\ b[2] = "\n"
                                THEN Tail(Tail(b)) ELSE Tail(b))
  ELSE <<Head(b)>> \o TextMode(Tail(b))

Digits == <<"0", "1", "2", "3", "4", "5", "6", "7", "8", "9">>

RECURSIVE DecNat(_)
DecNat(n) ==
  IF n < 10 THEN <<Digits[n + 1]>>
  ELSE DecNat(n \div 10) \o <<Digits[(n % 10) + 1]>>

\* str(n) / f"{n}" of an int
Dec(n) == IF n < 0 THEN <<"-">> \o DecNat(0 - n) ELSE DecNat(n)

\* needle in hay
Contains(hay, needle) ==
  \E i \in 0..(Len(hay) - Len(needle)) :
    SubSeq(hay, i + 1, i + Len(needle)) = needle

RECURSIVE CharLen(_)
\* len(s): the number of characters of a text
CharLen(s) == IF s = <<>> THEN 0 ELSE Len(Head(s)) + CharLen(Tail(s))

RECURSIVE Prefix(_, _)
\* s[:n]: the tokens that lie wholly within the first n characters
Prefix(s, n) ==
  IF s = <<>> \/ Len(Head(s)) > n THEN <<>>
  ELSE <<Head(s)>> \o Prefix(Tail(s), n - Len(Head(s)))

(***************************************************************************)
(* Python values produced by json.loads                                    *)
(***************************************************************************)

JNull == [k |-> "null"]
JBool(b) == [k |-> "bool", b |-> b]
JInt(n) == [k |-> "int", n |-> n]
JStr(s) == [k |-> "str", s |-> s]
JArr(a) == [k |-> "arr", a |-> a]
\* a dict: its items in insertion order, keys distinct
JObj(m) == [k |-> "obj", m |-> m]
KV(key, val) == [key |-> key, val |-> val]

HasKey(m, key) == \E i \in 1..Len(m) : m[i].key = key
Lookup(m, key) == m[CHOOSE i \in 1..Len(m) : m[i].key = key].val

\* d[key] = val on a dict: a key already present keeps its place
DictSet(m, key, val) ==
  IF HasKey(m, key)
    THEN [i \in 1..Len(m) |-> IF m[i].key = key THEN KV(key, val) ELSE m[i]]
    ELSE Append(m, KV(key, val))

(***************************************************************************)
(* json.dumps(value, indent=2)                                             *)
(***************************************************************************)

Indent == 2

RECURSIVE Spaces(_)
Spaces(n) == IF n = 0 THEN <<>> ELSE <<" ">> \o Spaces(n - 1)

NewlineIndent(lvl) == <<"\n">> \o Spaces(Indent * lvl)

EscapeChar(c) ==
  CASE c = "\"" -> <<"\\", "\"">>
    [] c = "\\" -> <<"\\", "\\">>
    [] c = "\n" -> <<"\\", "n">>
    [] c = "\t" -> <<"\\", "t">>
    [] c = "\r" -> <<"\\", "r">>
    [] c = "\f" -> <<"\\", "f">>
    [] OTHER -> <<c>>

RECURSIVE Escape(_)
Escape(s) == IF s = <<>> THEN <<>> ELSE EscapeChar(Head(s)) \o Escape(Tail(s))

DumpsStr(s) == <<"\"">> \o Escape(s) \o <<"\"">>

RECURSIVE Dumps(_, _)
RECURSIVE DumpsItems(_, _, _)
RECURSIVE DumpsMembers(_, _, _)

\* the items of a list from index i on, each on its own line
DumpsItems(a, i, lvl) ==
  IF i > Len(a) THEN <<>>
  ELSE (IF i > 1 THEN <<",">> ELSE <<>>)
       \o NewlineIndent(lvl) \o Dumps(a[i], lvl)
       \o DumpsItems(a, i + 1, lvl)

DumpsMembers(m, i, lvl) ==
  IF i > Len(m) THEN <<>>
  ELSE (IF i > 1 THEN <<",">> ELSE <<>>)
       \o NewlineIndent(lvl) \o DumpsStr(m[i].key) \o <<":", " ">>
       \o Dumps(m[i].val, lvl)
       \o DumpsMembers(m, i + 1, lvl)

Dumps(v, lvl) ==
  CASE v.k = "null" -> <<"null">>
    [] v.k = "bool" -> IF v.b THEN <<"true">> ELSE <<"false">>
    [] v.k = "int" -> Dec(v.n)
    [] v.k = "str" -> DumpsStr(v.s)
    [] v.k = "arr" ->
         IF v.a = <<>> THEN <<"[", "]">>
         ELSE <<"[">> \o DumpsItems(v.a, 1, lvl + 1)
              \o NewlineIndent(lvl) \o <<"]">>
    [] v.k = "obj" ->
         IF v.m = <<>> THEN <<"{", "}">>
         ELSE <<"{">> \o DumpsMembers(v.m, 1, lvl + 1)
              \o NewlineIndent(lvl) \o <<"}">>

JsonDumps(v) == Dumps(v, 0)

(***************************************************************************)
(* json.loads(text)                                                        *)
(***************************************************************************)

EOF == "<EOF>"
At(t, p) == IF p <= Len(t) THEN t[p] ELSE EOF

ParseFail == [ok |-> FALSE]
ParseOk(v, p) == [ok |-> TRUE, val |-> v, pos |-> p]

RECURSIVE SkipWs(_, _)
SkipWs(t, p) ==
  IF p <= Len(t) /\ t[p] \in JsonWhitespace THEN SkipWs(t, p + 1) ELSE p

IsDigit(c) == \E i \in 1..10 : Digits[i] = c
DigitVal(c) == (CHOOSE i \in 1..10 : Digits[i] = c) - 1

RECURSIVE ParseDigits(_, _, _)
ParseDigits(t, p, acc) ==
  IF IsDigit(At(t, p))
    THEN ParseDigits(t, p + 1, acc * 10 + DigitVal(t[p]))
    ELSE ParseOk(acc, p)

\* -?(0|[1-9][0-9]*)
ParseNumber(t, p) ==
  LET neg == At(t, p) = "-"
      q == IF neg THEN p + 1 ELSE p
      r == IF At(t, q) = "0" THEN ParseOk(0, q + 1)
           ELSE IF IsDigit(At(t, q)) THEN ParseDigits(t, q, 0)
           ELSE ParseFail
  IN IF r.ok
       THEN ParseOk(JInt(IF neg THEN 0 - r.val ELSE r.val), r.pos)
       ELSE ParseFail

Unescape(c) ==
  CASE c = "\"" -> "\""
    [] c = "\\" -> "\\"
    [] c = "/" -> "/"
    [] c = "n" -> "\n"
    [] c = "t" -> "\t"
    [] c = "r" -> "\r"
    [] c = "f" -> "\f"
    [] OTHER -> EOF

ControlChars == {"\n", "\t", "\r", "\f"}

RECURSIVE ParseString(_, _, _)
\* the characters of a string literal, p just after its opening quote
ParseString(t, p, acc) ==
  LET c == At(t, p) IN
  IF c = EOF \/ c \in ControlChars THEN ParseFail
  ELSE IF c = "\"" THEN ParseOk(acc, p + 1)
  ELSE IF c = "\\"
    THEN IF Unescape(At(t, p + 1)) = EOF THEN ParseFail
         ELSE ParseString(t, p + 2, Append(acc, Unescape(At(t, p + 1))))
  ELSE ParseString(t, p + 1, Append(acc, c))

RECURSIVE ParseValue(_, _)
RECURSIVE ParseItems(_, _, _)
RECURSIVE ParseMembers(_, _, _)

\* the rest of an array, p at the start of its next item
ParseItems(t, p, acc) ==
  LET r == ParseValue(t, p) IN
  IF ~r.ok THEN ParseFail
  ELSE LET q == SkipWs(t, r.pos)
           items == Append(acc, r.val)
       IN IF At(t, q) = "]" THEN ParseOk(JArr(items), q + 1)
          ELSE IF At(t, q) = "," THEN ParseItems(t, SkipWs(t, q + 1), items)
          ELSE ParseFail

\* the rest of an object, p at the opening quote of its next key
ParseMembers(t, p, acc) ==
  IF At(t, p) # "\"" THEN ParseFail
  ELSE
    LET key == ParseString(t, p + 1, <<>>) IN
    IF ~key.ok THEN ParseFail
    ELSE
      LET c == SkipWs(t, key.pos) IN
      IF At(t, c) # ":" THEN ParseFail
      ELSE
        LET r == ParseValue(t, SkipWs(t, c + 1)) IN
        IF ~r.ok THEN ParseFail
        ELSE LET q == SkipWs(t, r.pos)
                 members == DictSet(acc, key.val, r.val)
             IN IF At(t, q) = "}" THEN ParseOk(JObj(members), q + 1)
                ELSE IF At(t, q) = ","
                  THEN ParseMembers(t, SkipWs(t, q + 1), members)
                ELSE ParseFail

ParseValue(t, p) ==
  LET c == At(t, p) IN
  CASE c = "null" -> ParseOk(JNull, p + 1)
    [] c = "true" -> ParseOk(JBool(TRUE), p + 1)
    [] c = "false" -> ParseOk(JBool(FALSE), p + 1)
    [] c = "\"" ->
         LET s == ParseString(t, p + 1, <<>>) IN
         IF s.ok THEN ParseOk(JStr(s.val), s.pos) ELSE ParseFail
    [] c = "[" ->
         LET q == SkipWs(t, p + 1) IN
         IF At(t, q) = "]" THEN ParseOk(JArr(<<>>), q + 1)
         ELSE ParseItems(t, q, <<>>)
    [] c = "{" ->
         LET q == SkipWs(t, p + 1) IN
         IF At(t, q) = "}" THEN ParseOk(JObj(<<>>), q + 1)
         ELSE ParseMembers(t, q, <<>>)
    [] c = "-" \/ IsDigit(c) -> ParseNumber(t, p)
    [] OTHER -> ParseFail

\* json.loads: [ok |-> TRUE, val |-> v], or [ok |-> FALSE] for JSONDecodeError
JsonLoads(t) ==
  LET r == ParseValue(t, SkipWs(t, 1)) IN
  IF r.ok /\ SkipWs(t, r.pos) > Len(t)
    THEN [ok |-> TRUE, val |-> r.val]
    ELSE ParseFail

(***************************************************************************)
(* str(value) and repr(value) of a Python value                            *)
(***************************************************************************)

RECURSIVE PyRepr(_)
RECURSIVE PyReprItems(_, _)
RECURSIVE PyReprMembers(_, _)

PyReprItems(a, i) ==
  IF i > Len(a) THEN <<>>
  ELSE (IF i > 1 THEN <<",", " ">> ELSE <<>>) \o PyRepr(a[i])
       \o PyReprItems(a, i + 1)

PyReprMembers(m, i) ==
  IF i > Len(m) THEN <<>>
  ELSE (IF i > 1 THEN <<",", " ">> ELSE <<>>)
       \o PyRepr(JStr(m[i].key)) \o <<":", " ">> \o PyRepr(m[i].val)
       \o PyReprMembers(m, i + 1)

PyRepr(v) ==
  CASE v.k = "null" -> <<"None">>
    [] v.k = "bool" -> IF v.b THEN <<"True">> ELSE <<"False">>
    [] v.k = "int" -> Dec(v.n)
    [] v.k = "str" -> <<"'">> \o Escape(v.s) \o <<"'">>
    [] v.k = "arr" -> <<"[">> \o PyReprItems(v.a, 1) \o <<"]">>
    [] v.k = "obj" -> <<"{">> \o PyReprMembers(v.m, 1) \o <<"}">>

\* f"{value}"
PyStr(v) == IF v.k = "str" THEN v.s ELSE PyRepr(v)

(***************************************************************************)
(* errors.py of both packages                                              *)
(***************************************************************************)

Packages == {"langchain", "crewai"}

\* str(exc): what Exception.__init__ was given
ExcStr(pkg, code, message) ==
  IF pkg = "crewai"
    THEN PyStr(code) \o <<": ">> \o PyStr(message)
    ELSE PyStr(message)

Raise(pkg, cls, code, message) ==
  [tag |-> "raise", cls |-> cls, code |-> code, message |-> message,
   str |-> ExcStr(pkg, code, message)]

BoltzPayBridgeError(pkg, code, message) ==
  Raise(pkg, "BoltzPayBridgeError", code, message)

NodeNotFoundMessage ==
  <<"Node.js/npx not found. Install Node.js 20+ from ", "https://nodejs.org",
    " or use the MCP server: npx @boltzpay/mcp">>

BoltzPayNodeNotFoundError(pkg) ==
  Raise(pkg, "BoltzPayNodeNotFoundError",
        JStr(<<"NODE_NOT_FOUND">>), JStr(NodeNotFoundMessage))

\* a message that names the default instead of the timeout of the call
TimeoutMessageDefault(pkg, timeout) ==
  <<"CLI command timed out after ", "3", "0", "s">>

TimeoutMessage(pkg, timeout) ==
  IF pkg = "crewai"
    THEN <<"CLI command timed out after ">> \o Dec(timeout) \o <<"s">>
    ELSE <<"BoltzPay CLI command timed out after ">> \o Dec(timeout)
         \o <<" seconds">>

BoltzPayTimeoutError(pkg, timeout) ==
  Raise(pkg, "BoltzPayTimeoutError",
        JStr(<<"TIMEOUT">>), JStr(TimeoutMessage(pkg, timeout)))

\* the classes an `except BoltzPayBridgeError` clause catches
BridgeErrorClasses ==
  {"BoltzPayBridgeError", "BoltzPayNodeNotFoundError", "BoltzPayTimeoutError"}

\* an exception that is no BoltzPayBridgeError
Escapes(cls) == [tag |-> "raise", cls |-> cls]

Returns(v) == [tag |-> "return", val |-> v]

NoOutcome == [tag |-> "none"]

IsBridgeError(o) == o.tag = "raise" /\ o.cls \in BridgeErrorClasses

(***************************************************************************)
(* bridge.py: what each of the four functions does with a finished process *)
(***************************************************************************)

\* bytes.decode() of the child's output, which is ASCII text: every
\* character is the byte of the same value
Decode(b) == b

\* d.get(key, default) on a dict
DictGet(d, key, default) ==
  IF HasKey(d.m, key) THEN Lookup(d.m, key) ELSE default

\* a subscript that yields None for a missing key, as dict.get does
SubscriptOrNone(v, key) ==
  IF v.k # "obj" THEN [exc |-> "TypeError"]
  ELSE IF ~HasKey(v.m, key) THEN [exc |-> "none", val |-> JNull]
  ELSE [exc |-> "none", val |-> Lookup(v.m, key)]

\* v[key]: the exception it raises, if any, else the value
Subscript(v, key) ==
  IF v.k # "obj" THEN [exc |-> "TypeError"]
  ELSE IF ~HasKey(v.m, key) THEN [exc |-> "KeyError"]
  ELSE [exc |-> "none", val |-> Lookup(v.m, key)]

\* isinstance(data, dict) and data.get("success") is False
IsErrorEnvelope(data) ==
  data.k = "obj" /\ DictGet(data, <<"success">>, JNull) = JBool(FALSE)

\* a bridge that hands back only the data member of a success envelope
LcEnvelopeUnwrapped(data) ==
  IF data.k = "obj" /\ HasKey(data.m, <<"data">>)
    THEN Returns(Lookup(data.m, <<"data">>))
    ELSE Returns(data)

\* an envelope check with another default code
LcEnvelopeOtherDefault(data) ==
  IF IsErrorEnvelope(data)
    THEN LET error_info == DictGet(data, <<"error">>, JObj(<<>>)) IN
         IF error_info.k # "obj" THEN Escapes("AttributeError")
         ELSE BoltzPayBridgeError("langchain",
                DictGet(error_info, <<"code">>, JStr(<<"UNKNOWN_ERROR">>)),
                DictGet(error_info, <<"message">>,
                        JStr(<<"Unknown CLI error">>)))
    ELSE Returns(data)

\* langchain bridge.py lines 70-78 and 132-140, on the parsed data
LcEnvelope(data) ==
  IF IsErrorEnvelope(data)
    THEN LET error_info == DictGet(data, <<"error">>, JObj(<<>>)) IN
         IF error_info.k # "obj" THEN Escapes("AttributeError")
         ELSE BoltzPayBridgeError("langchain",
                DictGet(error_info, <<"code">>, JStr(<<"UNKNOWN">>)),
                DictGet(error_info, <<"message">>,
                        JStr(<<"Unknown CLI error">>)))
    ELSE Returns(data)

\* a fallback message that leaves the exit code out
LcFallbackMessageNoCode(stderr, returncode) ==
  IF stderr # <<>> THEN stderr ELSE <<"Unknown error">>

\* stderr or f"CLI exited with code {returncode}"
LcFallbackMessage(stderr, returncode) ==
  IF stderr # <<>> THEN stderr
  ELSE <<"CLI exited with code ">> \o Dec(returncode)

\* a langchain bridge that, like the crewai one, looks at the exit status
\* before it parses
LcRunCliResultStatusFirst(returncode, out, err) ==
  LET stdout == Strip(TextMode(out))
      parsed == JsonLoads(stdout)
  IN IF returncode # 0 \/ ~parsed.ok
       THEN BoltzPayBridgeError("langchain", JStr(<<"CLI_ERROR">>),
              JStr(LcFallbackMessage(Strip(TextMode(err)), returncode)))
       ELSE LcEnvelope(parsed.val)

\* langchain run_cli, after subprocess.run returned
LcRunCliResult(returncode, out, err) ==
  LET stdout == Strip(TextMode(out))
      parsed == JsonLoads(stdout)
  IN IF ~parsed.ok
       THEN BoltzPayBridgeError("langchain", JStr(<<"CLI_ERROR">>),
              JStr(LcFallbackMessage(Strip(TextMode(err)), returncode)))
       ELSE LcEnvelope(parsed.val)

\* langchain async_run_cli, after communicate() returned
LcAsyncRunCliResult(returncode, stdout_bytes, stderr_bytes) ==
  LET stdout == Strip(Decode(stdout_bytes))
      parsed == JsonLoads(stdout)
  IN IF ~parsed.ok
       THEN BoltzPayBridgeError("langchain", JStr(<<"CLI_ERROR">>),
              JStr(LcFallbackMessage(Strip(Decode(stderr_bytes)),
                                     returncode)))
       ELSE LcEnvelope(parsed.val)

\* a fallback that strips stderr first, as the langchain bridge does
CrFallbackMessageStripped(stderr) ==
  IF Strip(stderr) # <<>> THEN Strip(stderr) ELSE <<"Unknown error">>

\* result.stderr or "Unknown error"
CrFallbackMessage(stderr) ==
  IF stderr # <<>> THEN stderr ELSE <<"Unknown error">>

ParseErrorPrefixLen == 200

\* a crewai bridge that knows no PARSE_ERROR and reports every failure as
\* CLI_ERROR
CrResultNoParseError(returncode, stdout, stderr) ==
  LET parsed == JsonLoads(stdout) IN
  IF returncode = 0 /\ parsed.ok THEN Returns(parsed.val)
  ELSE BoltzPayBridgeError("crewai", JStr(<<"CLI_ERROR">>),
         JStr(CrFallbackMessage(stderr)))

\* crewai bridge.py lines 67-78 and 112-122, on the decoded output
CrResult(returncode, stdout, stderr) ==
  LET parsed == JsonLoads(stdout)
      cli_error == BoltzPayBridgeError("crewai", JStr(<<"CLI_ERROR">>),
                     JStr(CrFallbackMessage(stderr)))
  IN IF returncode # 0
       THEN IF ~parsed.ok THEN cli_error
            ELSE LET error == Subscript(parsed.val, <<"error">>) IN
                 IF error.exc # "none" THEN cli_error
                 ELSE LET code == Subscript(error.val, <<"code">>)
                          message == Subscript(error.val, <<"message">>)
                      IN IF code.exc # "none" \/ message.exc # "none"
                           THEN cli_error
                           ELSE BoltzPayBridgeError("crewai", code.val,
                                                    message.val)
       ELSE IF parsed.ok THEN Returns(parsed.val)
            ELSE BoltzPayBridgeError("crewai", JStr(<<"PARSE_ERROR">>),
                   JStr(<<"Invalid JSON output: ">>
                        \o Prefix(stdout, ParseErrorPrefixLen)))

\* crewai run_cli, after subprocess.run returned
CrRunCliResult(returncode, out, err) ==
  CrResult(returncode, TextMode(out), TextMode(err))

\* crewai async_run_cli, after communicate() returned
CrAsyncRunCliResult(returncode, stdout_bytes, stderr_bytes) ==
  LET stdout == IF stdout_bytes # <<>> THEN Decode(stdout_bytes) ELSE <<>>
      stderr == IF stderr_bytes # <<>> THEN Decode(stderr_bytes) ELSE <<>>
  IN CrResult(returncode, stdout, stderr)

Modes == {"sync", "async"}

\* what the called function does with the finished process
BridgeResult(pkg, mode, returncode, out, err) ==
  CASE pkg = "langchain" /\ mode = "sync" ->
         LcRunCliResult(returncode, out, err)
    [] pkg = "langchain" /\ mode = "async" ->
         LcAsyncRunCliResult(returncode, out, err)
    [] pkg = "crewai" /\ mode = "sync" ->
         CrRunCliResult(returncode, out, err)
    [] pkg = "crewai" /\ mode = "async" ->
         CrAsyncRunCliResult(returncode, out, err)

(***************************************************************************)
(* tools.py of both packages                                               *)
(***************************************************************************)

None == [some |-> FALSE]
Some(v) == [some |-> TRUE, v |-> v]

\* `if value:` on an Optional[str]
Truthy(opt) == opt.some /\ opt.v # ""

Tools ==
  {"fetch", "check", "quote", "discover", "budget", "history", "wallet"}

\* a quote tool that kept the name of the check tool it was copied from
ToolNameCopied(pkg, tool) ==
  IF tool = "quote" THEN "boltzpay_check" ELSE "boltzpay_" \o tool

\* the name attribute of the tool class of each operation, the same in both
\* packages
ToolName(pkg, tool) ==
  CASE tool = "fetch" -> "boltzpay_fetch"
    [] tool = "check" -> "boltzpay_check"
    [] tool = "quote" -> "boltzpay_quote"
    [] tool = "discover" -> "boltzpay_discover"
    [] tool = "budget" -> "boltzpay_budget"
    [] tool = "history" -> "boltzpay_history"
    [] tool = "wallet" -> "boltzpay_wallet"

\* a fetch mapping with the chain ahead of the method
FetchArgsChainFirst(url, method, chain) ==
  <<url>> \o (IF Truthy(chain) THEN <<"--chain", chain.v>> ELSE <<>>)
  \o <<"--method", method>>

\* BoltzPayFetchTool._run / _arun: cli_args
FetchArgs(url, method, chain) ==
  <<url, "--method", method>>
  \o (IF Truthy(chain) THEN <<"--chain", chain.v>> ELSE <<>>)

\* BoltzPayDiscoverTool._run / _arun: cli_args
DiscoverArgs(category) ==
  IF Truthy(category) THEN <<"--category", category.v>> ELSE <<>>

\* langchain tools.py: the command and args each _run / _arun passes
LcToolCall(tool, inp) ==
  CASE tool = "fetch" ->
         [command |-> "fetch",
          args |-> Some(FetchArgs(inp.url, inp.method, inp.chain))]
    [] tool = "check" -> [command |-> "check", args |-> Some(<<inp.url>>)]
    [] tool = "quote" -> [command |-> "quote", args |-> Some(<<inp.url>>)]
    [] tool = "discover" ->
         [command |-> "discover", args |-> Some(DiscoverArgs(inp.category))]
    [] tool = "budget" -> [command |-> "budget", args |-> None]
    [] tool = "history" -> [command |-> "history", args |-> None]
    [] tool = "wallet" -> [command |-> "wallet", args |-> None]

\* crewai tools.py: the command and args each _run passes to _safe_run
CrToolCall(tool, inp) ==
  CASE tool = "fetch" ->
         [command |-> "fetch",
          args |-> Some(FetchArgs(inp.url, inp.method, inp.chain))]
    [] tool = "check" -> [command |-> "check", args |-> Some(<<inp.url>>)]
    [] tool = "quote" -> [command |-> "quote", args |-> Some(<<inp.url>>)]
    [] tool = "discover" ->
         [command |-> "discover", args |-> Some(DiscoverArgs(inp.category))]
    [] tool = "budget" -> [command |-> "budget", args |-> Some(<<>>)]
    [] tool = "history" -> [command |-> "history", args |-> Some(<<>>)]
    [] tool = "wallet" -> [command |-> "wallet", args |-> Some(<<>>)]

ToolCall(pkg, tool, inp) ==
  IF pkg = "langchain" THEN LcToolCall(tool, inp) ELSE CrToolCall(tool, inp)

ToolReturns(text) == [tag |-> "return", text |-> text]

\* langchain _run / _arun after the bridge call: json.dumps(result, indent=2),
\* an exception of the bridge passes through
LcToolResult(o) ==
  IF o.tag = "return" THEN ToolReturns(JsonDumps(o.val)) ELSE o

\* a _safe_run whose except clause misses the subclasses
CrSafeRunBaseOnly(o) ==
  IF o.tag = "return" THEN ToolReturns(JsonDumps(o.val))
  ELSE IF o.tag = "raise" /\ o.cls = "BoltzPayBridgeError"
    THEN ToolReturns(<<"Error (">> \o PyStr(o.code) \o <<"): ">>
                     \o PyStr(o.message))
  ELSE o

\* crewai _safe_run after the bridge call
CrSafeRun(o) ==
  IF o.tag = "return" THEN ToolReturns(JsonDumps(o.val))
  ELSE IF IsBridgeError(o)
    THEN ToolReturns(<<"Error (">> \o PyStr(o.code) \o <<"): ">>
                     \o PyStr(o.message))
  ELSE o

\* what the caller of the bridge makes of its outcome
ToolResult(r, o) ==
  IF r.via # "tool" THEN NoOutcome
  ELSE IF r.pkg = "langchain" THEN LcToolResult(o)
  ELSE CrSafeRun(o)

(***************************************************************************)
(* bridge.py: the command line                                             *)
(***************************************************************************)

\* args or []
ArgsOrEmpty(args) == IF args.some THEN args.v ELSE <<>>

\* a command line with the flag ahead of the arguments
BuildCmdJsonFirst(npx, command, args) ==
  <<npx, "-y", "@boltzpay/cli", command, "--json">> \o ArgsOrEmpty(args)

\* [npx, "-y", "@boltzpay/cli", command, *(args or []), "--json"]
BuildCmd(npx, command, args) ==
  <<npx, "-y", "@boltzpay/cli", command>> \o ArgsOrEmpty(args) \o <<"--json">>

DefaultTimeout == 30

(***************************************************************************)
(* The inputs: requests of the host, answers of the environment            *)
(***************************************************************************)

\* json.dumps(value) on one line, as the tests build the child's stdout
RECURSIVE DumpsFlat(_)
RECURSIVE DumpsFlatItems(_, _)
RECURSIVE DumpsFlatMembers(_, _)

DumpsFlatItems(a, i) ==
  IF i > Len(a) THEN <<>>
  ELSE (IF i > 1 THEN <<",", " ">> ELSE <<>>) \o DumpsFlat(a[i])
       \o DumpsFlatItems(a, i + 1)

DumpsFlatMembers(m, i) ==
  IF i > Len(m) THEN <<>>
  ELSE (IF i > 1 THEN <<",", " ">> ELSE <<>>)
       \o DumpsStr(m[i].key) \o <<":", " ">> \o DumpsFlat(m[i].val)
       \o DumpsFlatMembers(m, i + 1)

DumpsFlat(v) ==
  CASE v.k = "arr" -> <<"[">> \o DumpsFlatItems(v.a, 1) \o <<"]">>
    [] v.k = "obj" -> <<"{">> \o DumpsFlatMembers(v.m, 1) \o <<"}">>
    [] OTHER -> Dumps(v, 0)

Str(token) == JStr(<<token>>)

ErrorObject(code, message) ==
  JObj(<<KV(<<"code">>, code), KV(<<"message">>, message)>>)

ErrorEnvelope(error) ==
  JObj(<<KV(<<"success">>, JBool(FALSE)), KV(<<"error">>, error)>>)

SuccessEnvelope(data, payment, metadata) ==
  JObj(<<KV(<<"success">>, JBool(TRUE)), KV(<<"data">>, data),
         KV(<<"payment">>, payment), KV(<<"metadata">>, metadata)>>)

\* well-formed success envelopes
SuccessEnvelopes ==
  { SuccessEnvelope(
      JObj(<<KV(<<"isPaid">>, JBool(TRUE)),
             KV(<<"note">>, JStr(<<"say ", "\"", "hi", "\"", "\n", "a",
                                   "\\", "b">>))>>),
      JNull,
      JObj(<<KV(<<"status">>, JInt(402))>>)),
    SuccessEnvelope(
      JArr(<<JObj(<<KV(<<"name">>, Str("invy.bot"))>>), JArr(<<>>)>>),
      JObj(<<KV(<<"amount">>, Str("$0.01"))>>),
      JObj(<<>>)) }

\* well-formed error envelopes
ErrorEnvelopes ==
  { ErrorEnvelope(ErrorObject(Str("AUTH_MISSING"),
                              Str("Coinbase credentials not configured"))) }

\* an error envelope of the external program whose code reads like one of
\* the bridge's own
ForwardedEnvelopes ==
  { ErrorEnvelope(ErrorObject(Str("PARSE_ERROR"),
                              Str("Invalid response body"))) }

\* error envelopes whose error member is absent or not as documented
BrokenErrorEnvelopes ==
  { JObj(<<KV(<<"success">>, JBool(FALSE))>>),
    ErrorEnvelope(JNull),
    ErrorEnvelope(Str("boom")),
    ErrorEnvelope(JObj(<<KV(<<"message">>, Str("only a message"))>>)),
    ErrorEnvelope(JObj(<<KV(<<"code">>, Str("ONLY_CODE"))>>)),
    ErrorEnvelope(ErrorObject(JInt(42), JNull)) }

\* other JSON values
OtherValues ==
  { JObj(<<KV(<<"success">>, JBool(TRUE)), KV(<<"data">>, JInt(1)),
           KV(<<"error">>, ErrorObject(Str("WARN"), Str("careful")))>>),
    JObj(<<KV(<<"data">>, JInt(1))>>),
    JInt(42),
    Str("ok"),
    JArr(<<JInt(1), JInt(-2)>>) }

PrintedValues ==
  SuccessEnvelopes \cup ErrorEnvelopes \cup ForwardedEnvelopes
    \cup BrokenErrorEnvelopes \cup OtherValues

\* stdout that is valid JSON: one line and a newline, as console.log prints
JsonStdouts ==
  {DumpsFlat(v) \o <<"\n">> : v \in PrintedValues}
    \cup {JsonDumps(v) : v \in ErrorEnvelopes}
    \cup { <<"{", "\"", "success", "\"", ":", "true", ",",
             "\"", "success", "\"", ":", "false", "}">> }

\* stdout that is not valid JSON
NonJsonStdouts ==
  { <<>>,
    <<"\n">>,
    <<"not json at all">>,
    <<"{", "\"", "success", "\"", ":">>,
    <<"{", "}", "trailing">>,
    <<"Usage: boltzpay <command>", "\r", "\n">> }
    \cup {<<"\f">> \o DumpsFlat(v) \o <<"\n">> :
            v \in ErrorEnvelopes \cup {JObj(<<KV(<<"data">>, JInt(1))>>)}}

Stdouts == JsonStdouts \cup NonJsonStdouts

Stderrs ==
  { <<>>, <<"\n">>, <<"Something went wrong on stderr", "\n">>,
    <<"npm ERR! code E404", "\r", "\n", "npm ERR! 404 Not Found", "\r",
      "\n">> }

ReturnCodes == {0, 1, -9}

\* what a child that is still running when the timer fires has written
PartialOutputs ==
  { [stdout |-> <<>>, stderr |-> <<>>],
    [stdout |-> <<"{", "\"", "success", "\"", ":">>,
     stderr |-> <<"working", "\n">>] }
    \cup {[stdout |-> DumpsFlat(v) \o <<"\n">>, stderr |-> <<>>] :
            v \in ErrorEnvelopes}
    \cup {[stdout |-> DumpsFlat(v) \o <<"\n">>, stderr |-> <<"warn">>] :
            v \in SuccessEnvelopes}

NpxPath == "/usr/local/bin/npx"

\* shutil.which("npx")
WhichResults == {None, Some(NpxPath)}

\* subprocess.run / create_subprocess_exec: the child starts, or the call
\* raises FileNotFoundError, or another OSError (PermissionError, ...)
SpawnResults == {"ok", "FileNotFoundError", "OSError"}

Urls == {"https://x/api"}
Methods == {"GET", "POST"}
Chains == {None, Some(""), Some("svm")}
Categories == {None, Some(""), Some("crypto-data")}

NoInput == [url |-> "", method |-> "", chain |-> None, category |-> None]

ToolInputs(tool) ==
  CASE tool = "fetch" ->
         {[NoInput EXCEPT !.url = u, !.method = m, !.chain = ch] :
            u \in Urls, m \in Methods, ch \in Chains}
    [] tool \in {"check", "quote"} ->
         {[NoInput EXCEPT !.url = u] : u \in Urls}
    [] tool = "discover" ->
         {[NoInput EXCEPT !.category = cat] : cat \in Categories}
    [] OTHER -> {NoInput}

\* the entry points: crewai tools have no _arun
ToolEntries == {<<"langchain", "sync">>, <<"langchain", "async">>,
                <<"crewai", "sync">>}

\* direct calls of run_cli / async_run_cli
DirectCommands == {"check"}
DirectArgs ==
  {None, Some(<<>>), Some(<<"https://x/api", "--method", "POST">>),
   Some(<<"--json">>)}
Timeouts == {DefaultTimeout, 5}

(***************************************************************************)
(* The state                                                               *)
(***************************************************************************)

NumCalls == 2
MaxCalls == 2

Calls == 1..NumCalls

VARIABLES
  pc,        \* where each call is
  req,       \* its request
  npx,       \* what shutil.which returned
  cmd,       \* the command line handed to the spawn function
  spawned,   \* how often the call called the spawn function
  child,     \* its child process
  proc,      \* what the child wrote and how it exited
  outcome,   \* how the bridge function ended
  toolOut,   \* how the tool method ended
  calls,     \* bridge calls made so far
  spawns     \* calls of the spawn function so far

vars == <<pc, req, npx, cmd, spawned, child, proc, outcome, toolOut,
          calls, spawns>>

NoRequest == [via |-> "none"]
NoProc == [exited |-> FALSE, stdout |-> <<>>, stderr |-> <<>>]

Init ==
  /\ pc = [c \in Calls |-> "idle"]
  /\ req = [c \in Calls |-> NoRequest]
  /\ npx = [c \in Calls |-> None]
  /\ cmd = [c \in Calls |-> <<>>]
  /\ spawned = [c \in Calls |-> 0]
  /\ child = [c \in Calls |-> "none"]
  /\ proc = [c \in Calls |-> NoProc]
  /\ outcome = [c \in Calls |-> NoOutcome]
  /\ toolOut = [c \in Calls |-> NoOutcome]
  /\ calls = 0
  /\ spawns = 0

\* the host makes its calls one after the other
NextInLine(c) ==
  /\ \A d \in Calls : pc[d] = "idle"
  /\ c = (calls % NumCalls) + 1
  /\ calls < MaxCalls

Start(c, r) ==
  /\ pc' = [pc EXCEPT ![c] = "find_npx"]
  /\ req' = [req EXCEPT ![c] = r]
  /\ calls' = calls + 1
  /\ UNCHANGED <<npx, cmd, spawned, child, proc, outcome, toolOut, spawns>>

\* the host calls run_cli or async_run_cli itself
CallBridge(c) ==
  /\ NextInLine(c)
  /\ \E pkg \in Packages, mode \in Modes, command \in DirectCommands,
        args \in DirectArgs, timeout \in Timeouts :
       Start(c, [via |-> "direct", pkg |-> pkg, mode |-> mode,
                 tool |-> "none", inp |-> NoInput, command |-> command,
                 args |-> args, timeout |-> timeout])

\* the host calls a tool's _run or _arun, which calls the bridge
CallTool(c) ==
  /\ NextInLine(c)
  /\ \E e \in ToolEntries, tool \in Tools :
       \E inp \in ToolInputs(tool) :
         LET call == ToolCall(e[1], tool, inp) IN
         Start(c, [via |-> "tool", pkg |-> e[1], mode |-> e[2],
                   tool |-> tool, inp |-> inp, command |-> call.command,
                   args |-> call.args, timeout |-> DefaultTimeout])

\* the bridge function ends, and with it the tool method that called it
End(c, o) ==
  /\ pc' = [pc EXCEPT ![c] = "done"]
  /\ outcome' = [outcome EXCEPT ![c] = o]
  /\ toolOut' = [toolOut EXCEPT ![c] = ToolResult(req[c], o)]

\* a _find_npx that falls back to the bare name
find_npx_fallback(which) ==
  [found |-> TRUE, path |-> IF which.some THEN which.v ELSE "npx"]

\* _find_npx: the path, or BoltzPayNodeNotFoundError when which found none
find_npx(which) ==
  IF which.some THEN [found |-> TRUE, path |-> which.v]
  ELSE [found |-> FALSE]

\* _find_npx and the command line
FindNpx(c) ==
  /\ pc[c] = "find_npx"
  /\ \E which \in WhichResults :
       /\ npx' = [npx EXCEPT ![c] = which]
       /\ IF find_npx(which).found
            THEN /\ pc' = [pc EXCEPT ![c] = "spawn"]
                 /\ cmd' = [cmd EXCEPT ![c] =
                              BuildCmd(find_npx(which).path, req[c].command,
                                       req[c].args)]
                 /\ UNCHANGED <<outcome, toolOut>>
            ELSE /\ End(c, BoltzPayNodeNotFoundError(req[c].pkg))
                 /\ UNCHANGED cmd
  /\ UNCHANGED <<req, spawned, child, proc, calls, spawns>>

\* a bridge that tries again when the launcher vanished
AfterSpawnRetry(result) ==
  IF result = "ok" THEN "wait"
  ELSE IF result = "FileNotFoundError" THEN "spawn"
  ELSE "done"

\* where the call goes after the spawn function returned or raised
AfterSpawn(result) == IF result = "ok" THEN "wait" ELSE "done"

\* how the call ends when the spawn function raised
SpawnFailure(pkg, result) ==
  IF result = "FileNotFoundError" THEN BoltzPayNodeNotFoundError(pkg)
  ELSE Escapes(result)

\* subprocess.run / asyncio.create_subprocess_exec start the child
Spawn(c) ==
  /\ pc[c] = "spawn"
  /\ spawned' = [spawned EXCEPT ![c] = @ + 1]
  /\ spawns' = spawns + 1
  /\ \E result \in SpawnResults :
       /\ pc' = [pc EXCEPT ![c] = AfterSpawn(result)]
       /\ IF result = "ok"
            THEN /\ child' = [child EXCEPT ![c] = "running"]
                 /\ UNCHANGED <<outcome, toolOut>>
            ELSE /\ outcome' = [outcome EXCEPT ![c] =
                                  SpawnFailure(req[c].pkg, result)]
                 /\ toolOut' = [toolOut EXCEPT ![c] =
                                  ToolResult(req[c], outcome'[c])]
                 /\ UNCHANGED child
  /\ UNCHANGED <<req, npx, cmd, proc, calls>>

\* the child exits within the timeout with one of the given statuses and
\* outputs, which subprocess.run / communicate() collect
Exits(c, returncodes, stdouts, stderrs) ==
  /\ pc[c] = "wait"
  /\ child[c] = "running"
  /\ \E rc \in returncodes, out \in stdouts, err \in stderrs :
       proc' = [proc EXCEPT ![c] = [exited |-> TRUE, returncode |-> rc,
                                    stdout |-> out, stderr |-> err]]
  /\ child' = [child EXCEPT ![c] = "exited"]
  /\ pc' = [pc EXCEPT ![c] = "parse"]
  /\ UNCHANGED <<req, npx, cmd, spawned, outcome, toolOut, calls, spawns>>

\* the child exits within the timeout; its output is collected
ChildExits(c) == Exits(c, ReturnCodes, Stdouts, Stderrs)

\* the rest of the bridge function, from the finished process to its end
Parse(c) ==
  /\ pc[c] = "parse"
  /\ End(c, BridgeResult(req[c].pkg, req[c].mode, proc[c].returncode,
                         proc[c].stdout, proc[c].stderr))
  /\ UNCHANGED <<req, npx, cmd, spawned, child, proc, calls, spawns>>

\* the timeout expires while the child runs: TimeoutExpired / TimeoutError
Expires(c, partial) ==
  /\ pc[c] = "wait"
  /\ child[c] = "running"
  /\ \E written \in partial :
       proc' = [proc EXCEPT ![c] = [exited |-> FALSE,
                                    stdout |-> written.stdout,
                                    stderr |-> written.stderr]]
  /\ pc' = [pc EXCEPT ![c] = "kill"]
  /\ UNCHANGED <<req, npx, cmd, spawned, child, outcome, toolOut, calls,
                 spawns>>

TimerFires(c) == Expires(c, PartialOutputs)

\* the child exits by itself after the timer fired, before the kill
ChildExitsLate(c) ==
  /\ pc[c] = "kill"
  /\ child[c] = "running"
  /\ child' = [child EXCEPT ![c] = "dead"]
  /\ UNCHANGED <<pc, req, npx, cmd, spawned, proc, outcome, toolOut, calls,
                 spawns>>

\* How the kill can end. Popen.kill(), which subprocess.run calls, does
\* nothing for a child that is gone; proc.kill() of asyncio raises
\* ProcessLookupError once the transport has let go of the exited child,
\* and does nothing before that.
KillResults(mode, childState) ==
  IF mode = "async" /\ childState = "dead"
    THEN {"ok", "ProcessLookupError"}
    ELSE {"ok"}

\* a kill that takes every running child with it
KillAllChildren(c) ==
  /\ pc[c] = "kill"
  /\ child' = [d \in Calls |->
                 IF child[d] = "running" THEN "killed" ELSE child[d]]
  /\ pc' = [pc EXCEPT ![c] = "reap"]
  /\ UNCHANGED <<req, npx, cmd, spawned, proc, outcome, toolOut, calls,
                 spawns>>

\* the kill on the timeout path
Kill(c) ==
  /\ pc[c] = "kill"
  /\ \E result \in KillResults(req[c].mode, child[c]) :
       IF result = "ok"
         THEN /\ child' = [child EXCEPT ![c] =
                             IF @ = "running" THEN "killed" ELSE @]
              /\ pc' = [pc EXCEPT ![c] = "reap"]
              /\ UNCHANGED <<outcome, toolOut>>
         ELSE /\ End(c, Escapes(result))
              /\ UNCHANGED child
  /\ UNCHANGED <<req, npx, cmd, spawned, proc, calls, spawns>>

\* the killed child terminates
ChildDies(c) ==
  /\ child[c] = "killed"
  /\ child' = [child EXCEPT ![c] = "dead"]
  /\ UNCHANGED <<pc, req, npx, cmd, spawned, proc, outcome, toolOut, calls,
                 spawns>>

\* proc.wait() returns and the timeout error is raised
Reap(c) ==
  /\ pc[c] = "reap"
  /\ child[c] = "dead"
  /\ End(c, BoltzPayTimeoutError(req[c].pkg, req[c].timeout))
  /\ UNCHANGED <<req, npx, cmd, spawned, child, proc, calls, spawns>>

\* the caller has its result; the call's locals are gone
Finish(c) ==
  /\ pc[c] = "done"
  /\ pc' = [pc EXCEPT ![c] = "idle"]
  /\ req' = [req EXCEPT ![c] = NoRequest]
  /\ npx' = [npx EXCEPT ![c] = None]
  /\ cmd' = [cmd EXCEPT ![c] = <<>>]
  /\ spawned' = [spawned EXCEPT ![c] = 0]
  /\ child' = [child EXCEPT ![c] = "none"]
  /\ proc' = [proc EXCEPT ![c] = NoProc]
  /\ outcome' = [outcome EXCEPT ![c] = NoOutcome]
  /\ toolOut' = [toolOut EXCEPT ![c] = NoOutcome]
  /\ UNCHANGED <<calls, spawns>>

Next ==
  \E c \in Calls :
    \/ CallBridge(c)
    \/ CallTool(c)
    \/ FindNpx(c)
    \/ Spawn(c)
    \/ ChildExits(c)
    \/ Parse(c)
    \/ TimerFires(c)
    \/ ChildExitsLate(c)
    \/ Kill(c)
    \/ ChildDies(c)
    \/ Reap(c)
    \/ Finish(c)

Spec == Init /\ [][Next]_vars

(***************************************************************************)
(* Concurrent calls: async_run_cli tasks on one event loop, run_cli calls  *)
(* in threads.  Every slot holds one call and all of them may be under way *)
(* at once; the requests and the children's outputs are a few of those     *)
(* above.                                                                  *)
(***************************************************************************)

ConcurrentRequests ==
  { [via |-> "direct", pkg |-> "langchain", mode |-> "async",
     tool |-> "none", inp |-> NoInput, command |-> "check",
     args |-> Some(<<"https://x/api">>), timeout |-> 5],
    [via |-> "direct", pkg |-> "crewai", mode |-> "sync",
     tool |-> "none", inp |-> NoInput, command |-> "quote",
     args |-> None, timeout |-> DefaultTimeout] }

ConcurrentStdouts ==
  {DumpsFlat(v) \o <<"\n">> : v \in ErrorEnvelopes}
    \cup {<<"not json at all">>}

\* a task or thread of the host calls the bridge while others are under way
CallConcurrently(c) ==
  /\ pc[c] = "idle"
  /\ \E r \in ConcurrentRequests : Start(c, r)

ConcurrentChildExits(c) == Exits(c, {0, 1}, ConcurrentStdouts, {<<>>})

ConcurrentTimerFires(c) ==
  Expires(c, {[stdout |-> <<>>, stderr |-> <<>>]})

NextConcurrent ==
  \E c \in Calls :
    \/ CallConcurrently(c)
    \/ FindNpx(c)
    \/ Spawn(c)
    \/ ConcurrentChildExits(c)
    \/ Parse(c)
    \/ ConcurrentTimerFires(c)
    \/ ChildExitsLate(c)
    \/ Kill(c)
    \/ ChildDies(c)
    \/ Reap(c)

SpecConcurrent == Init /\ [][NextConcurrent]_vars

(***************************************************************************)
(* Termination.  The calls are those of the concurrent specification; the  *)
(* children print an empty JSON object or a line that is not JSON, since   *)
(* whether a call ends does not depend on what its child printed.          *)
(***************************************************************************)

TerminationStdouts ==
  {DumpsFlat(JObj(<<>>)) \o <<"\n">>, <<"not json at all">>}

TerminationChildExits(c) == Exits(c, {0, 1}, TerminationStdouts, {<<>>})

\* a step of call c that its own code, its child or its timer takes; the
\* exit of a child between the timeout and the kill is not among them
Progress(c) ==
  \/ FindNpx(c)
  \/ Spawn(c)
  \/ TerminationChildExits(c)
  \/ ConcurrentTimerFires(c)
  \/ Parse(c)
  \/ Kill(c)
  \/ ChildDies(c)
  \/ Reap(c)

NextFair ==
  \E c \in Calls :
    \/ CallConcurrently(c)
    \/ Progress(c)
    \/ ChildExitsLate(c)

\* The steps of the bridge's own code are taken when they can be; a child
\* that runs either exits or outlives the timeout; a killed child ends.
\* Nothing makes a child exit between the timeout and the kill.
Fairness == \A c \in Calls : WF_vars(Progress(c))

SpecFair == Init /\ [][NextFair]_vars /\ Fairness

(***************************************************************************)
(* The claims                                                              *)
(***************************************************************************)

Done(c) == pc[c] = "done"

\* the call ended after its child had exited within the timeout
Completed(c) == Done(c) /\ proc[c].exited

\* the call ended after its timeout had expired
TimedOut(c) == Done(c) /\ child[c] = "dead"

\* the call ended without finding the launcher
LauncherMissing(c) == Done(c) /\ ~npx[c].some

ViaTool(c) == req[c].via = "tool"

\* the text a call has of the bytes its child wrote
Captured(mode, b) == IF mode = "sync" THEN TextMode(b) ELSE Decode(b)

\* the timeout of the call expired while it waited for its child
TimerFired(c) ==
  pc[c] \in {"kill", "reap", "done"} /\ child[c] # "none" /\ ~proc[c].exited

StdoutText(c) == Captured(req[c].mode, proc[c].stdout)
StderrText(c) == Captured(req[c].mode, proc[c].stderr)

Code(token) == JStr(<<token>>)

RECURSIVE Count(_, _)
Count(x, seq) ==
  IF seq = <<>> THEN 0
  ELSE (IF Head(seq) = x THEN 1 ELSE 0) + Count(x, Tail(seq))

\* C1: every Bridge call, whatever the outcome of the process, ends either
\* by returning the parsed JSON value or by raising a BoltzPayBridgeError
\* that carries a code and a message; no other exception escapes.
C1_ReturnsOrBridgeError ==
  \A c \in Calls :
    Done(c) =>
      \/ outcome[c].tag = "return"
      \/ /\ IsBridgeError(outcome[c])
         /\ outcome[c].code.k = "str"
         /\ outcome[c].message.k = "str"

IsObject(v, keys) == v.k = "obj" /\ \A key \in keys : HasKey(v.m, <<key>>)

\* {success: false, error: {code: c, message: m}}
IsWellFormedError(v) ==
  /\ IsObject(v, {"success", "error"})
  /\ Lookup(v.m, <<"success">>) = JBool(FALSE)
  /\ IsObject(Lookup(v.m, <<"error">>), {"code", "message"})
  /\ Lookup(Lookup(v.m, <<"error">>).m, <<"code">>).k = "str"
  /\ Lookup(Lookup(v.m, <<"error">>).m, <<"message">>).k = "str"

\* C2: when the process completes and its stdout parses to
\* {success: false, error: {code: c, message: m}}, the Bridge of both
\* packages raises a BoltzPayBridgeError with code c and message m, for every
\* exit status; the envelope is never returned.
C2_ErrorEnvelopeRaises ==
  \A c \in Calls :
    LET parsed == JsonLoads(proc[c].stdout) IN
    (Completed(c) /\ parsed.ok /\ IsWellFormedError(parsed.val)) =>
      LET error == Lookup(parsed.val.m, <<"error">>) IN
      /\ IsBridgeError(outcome[c])
      /\ outcome[c].code = Lookup(error.m, <<"code">>)
      /\ outcome[c].message = Lookup(error.m, <<"message">>)

\* C3 as stated: when stdout is not valid JSON, both packages raise
\* CLI_ERROR for every exit status, with a message containing the stderr
\* text when stderr is non-empty and containing the exit code when it is
\* empty.  Whitespace around stdout and stderr is given the benefit of the
\* doubt: stdout counts as not JSON only when it is not JSON with or without
\* that whitespace, and stderr is compared without it.
C3_NonJsonIsCliError ==
  \A c \in Calls :
    (Completed(c) /\ ~JsonLoads(StdoutText(c)).ok
       /\ ~JsonLoads(Strip(StdoutText(c))).ok) =>
      /\ IsBridgeError(outcome[c])
      /\ outcome[c].code = Code("CLI_ERROR")
      /\ outcome[c].message.k = "str"
      /\ IF Strip(StderrText(c)) # <<>>
           THEN Contains(outcome[c].message.s, Strip(StderrText(c)))
           ELSE Contains(outcome[c].message.s, Dec(proc[c].returncode))

\* C3 as amended: the LangChain bridge, when stdout stripped of surrounding
\* whitespace is not valid JSON, raises CLI_ERROR for every exit status; its
\* message is the stderr text stripped of surrounding whitespace when that
\* is non-empty, and contains the exit code otherwise.  The CrewAI bridge,
\* when stdout is not valid JSON, raises CLI_ERROR only for a non-zero exit
\* status, with the stderr text as message when stderr is non-empty and
\* "Unknown error" (no exit code) when it is empty; for exit status 0 it
\* raises PARSE_ERROR.
C3_NonJsonPerPackage ==
  \A c \in Calls :
    Completed(c) =>
      LET p == [returncode |-> proc[c].returncode,
                stdout |-> StdoutText(c), stderr |-> StderrText(c)]
          o == outcome[c]
      IN IF req[c].pkg = "langchain"
           THEN ~JsonLoads(Strip(p.stdout)).ok =>
                  /\ o.tag = "raise" /\ o.cls = "BoltzPayBridgeError"
                  /\ o.code = Code("CLI_ERROR")
                  /\ IF Strip(p.stderr) # <<>>
                       THEN o.message = JStr(Strip(p.stderr))
                       ELSE /\ o.message.k = "str"
                            /\ Contains(o.message.s, Dec(p.returncode))
           ELSE ~JsonLoads(p.stdout).ok =>
                  /\ o.tag = "raise" /\ o.cls = "BoltzPayBridgeError"
                  /\ IF p.returncode # 0
                       THEN /\ o.code = Code("CLI_ERROR")
                            /\ o.message =
                                 JStr(IF p.stderr # <<>> THEN p.stderr
                                      ELSE <<"Unknown error">>)
                       ELSE o.code = Code("PARSE_ERROR")

\* a LangChain call ended on output that is not JSON, with stderr empty
\* after stripping and a non-zero exit status that the message names
C3_Witness ==
  \E c \in Calls :
    /\ Completed(c) /\ req[c].pkg = "langchain"
    /\ ~JsonLoads(Strip(proc[c].stdout)).ok
    /\ proc[c].stderr = <<"\n">>
    /\ proc[c].returncode = -9
    /\ outcome[c].message = JStr(<<"CLI exited with code ", "-", "9">>)

\* {success: true, data, payment, metadata}
IsWellFormedSuccess(v) ==
  /\ IsObject(v, {"success", "data", "payment", "metadata"})
  /\ Len(v.m) = 4
  /\ Lookup(v.m, <<"success">>) = JBool(TRUE)

\* C4: for a process that exits with status 0 and prints a well-formed
\* success envelope, the Bridge returns a value equal to the parsed
\* envelope, and the text a tool returns for it parses back to that
\* envelope.
C4_SuccessRoundTrip ==
  \A c \in Calls :
    LET parsed == JsonLoads(proc[c].stdout) IN
    (Completed(c) /\ proc[c].returncode = 0 /\ parsed.ok
       /\ IsWellFormedSuccess(parsed.val)) =>
      /\ outcome[c] = [tag |-> "return", val |-> parsed.val]
      /\ ViaTool(c) =>
           /\ toolOut[c].tag = "return"
           /\ JsonLoads(toolOut[c].text) = [ok |-> TRUE, val |-> parsed.val]

\* a tool returned the text of a success envelope whose data holds a string
\* with a quote, a newline and a backslash
C4_Witness ==
  \E c \in Calls :
    /\ Completed(c) /\ ViaTool(c) /\ proc[c].returncode = 0
    /\ outcome[c].tag = "return"
    /\ IsWellFormedSuccess(outcome[c].val)
    /\ Lookup(outcome[c].val.m, <<"data">>).k = "obj"
    /\ toolOut[c].tag = "return"
    /\ Contains(toolOut[c].text, <<"\\", "n">>)

\* C5: when npx is not on the search path the call fails with
\* NODE_NOT_FOUND and never reaches the spawn step; a CrewAI tool returns a
\* string containing NODE_NOT_FOUND.
C5_NodeNotFoundNoSpawn ==
  \A c \in Calls :
    /\ (pc[c] \notin {"idle", "find_npx"} /\ ~npx[c].some) =>
         /\ Done(c)
         /\ spawned[c] = 0
         /\ child[c] = "none"
         /\ outcome[c].tag = "raise"
         /\ outcome[c].cls = "BoltzPayNodeNotFoundError"
         /\ outcome[c].code = Code("NODE_NOT_FOUND")
         /\ (ViaTool(c) /\ req[c].pkg = "crewai") =>
              /\ toolOut[c].tag = "return"
              /\ Contains(toolOut[c].text, <<"NODE_NOT_FOUND">>)
    /\ spawned[c] > 0 => npx[c].some

\* a CrewAI tool returned the NODE_NOT_FOUND string
C5_Witness ==
  \E c \in Calls :
    /\ LauncherMissing(c) /\ ViaTool(c) /\ req[c].pkg = "crewai"
    /\ toolOut[c].tag = "return"
    /\ spawns = 0

\* C6: when the child does not finish within the timeout the call raises a
\* BoltzPayTimeoutError with code TIMEOUT whose message contains the decimal
\* timeout of that call (30 for a tool), whatever the child had written;
\* nothing the child wrote is returned.
C6_TimeoutError ==
  \A c \in Calls :
    TimedOut(c) =>
      /\ outcome[c].tag = "raise"
      /\ outcome[c].cls = "BoltzPayTimeoutError"
      /\ outcome[c].code = Code("TIMEOUT")
      /\ outcome[c].message.k = "str"
      /\ Contains(outcome[c].message.s, Dec(req[c].timeout))
      /\ ViaTool(c) =>
           /\ req[c].timeout = 30
           /\ toolOut[c].tag = "return" =>
                toolOut[c].text =
                  <<"Error (", "TIMEOUT", "): ">> \o outcome[c].message.s

\* C7: the spawned command line is [npx path, "-y", "@boltzpay/cli",
\* command, the args in order, "--json"]; "--json" is last and is added once
\* by the Bridge, a missing args list counts as empty, and no tool adds
\* "--json" itself.
C7_CommandLine ==
  \A c \in Calls :
    spawned[c] > 0 =>
      LET args == IF req[c].args.some THEN req[c].args.v ELSE <<>> IN
      /\ cmd[c] = <<npx[c].v, "-y", "@boltzpay/cli", req[c].command>>
                  \o args \o <<"--json">>
      /\ cmd[c][Len(cmd[c])] = "--json"
      /\ SubSeq(cmd[c], 5, Len(cmd[c]) - 1) = args
      /\ Count("--json", cmd[c]) = Count("--json", args) + 1
      /\ ViaTool(c) => Count("--json", cmd[c]) = 1

\* a direct call with three arguments has spawned
C7_Witness ==
  \E c \in Calls :
    /\ spawned[c] = 1 /\ req[c].via = "direct"
    /\ req[c].args = Some(<<"https://x/api", "--method", "POST">>)
    /\ Len(cmd[c]) = 8

\* C8: a call calls the spawn function at most once, and exactly once when
\* the launcher was found; after any outcome it does not spawn again; when
\* it ends no child of it is left running, and its outcome is that of its
\* own process alone.
C8_OneSpawnPerCall ==
  /\ spawns <= calls
  /\ \A c \in Calls :
       /\ spawned[c] <= 1
       /\ pc[c] \in {"wait", "kill", "reap", "parse"} => spawned[c] = 1
       /\ child[c] # "none" => spawned[c] = 1
       /\ Done(c) =>
            /\ spawned[c] = IF npx[c].some THEN 1 ELSE 0
            /\ child[c] \in {"none", "exited", "dead"}
       /\ Completed(c) =>
            outcome[c] = BridgeResult(req[c].pkg, req[c].mode,
                                      proc[c].returncode, proc[c].stdout,
                                      proc[c].stderr)
       /\ pc[c] = "idle" =>
            /\ child[c] = "none" /\ proc[c] = NoProc
            /\ outcome[c] = NoOutcome /\ spawned[c] = 0

\* the second call has ended after a spawn of its own, the first having
\* spawned too
C8_Witness ==
  \E c \in Calls :
    /\ calls = 2 /\ spawns = 2
    /\ Done(c) /\ spawned[c] = 1

\* the documented mapping, with the two optional arguments appended when
\* chainGiven / categoryGiven say so
DocumentedArgs(tool, inp, chainGiven, categoryGiven) ==
  CASE tool = "fetch" ->
         <<inp.url, "--method", inp.method>>
         \o (IF chainGiven THEN <<"--chain", inp.chain.v>> ELSE <<>>)
    [] tool \in {"check", "quote"} -> <<inp.url>>
    [] tool = "discover" ->
         IF categoryGiven THEN <<"--category", inp.category.v>> ELSE <<>>
    [] OTHER -> <<>>

ToolArgsAre(c, expected) ==
  /\ req[c].command = req[c].tool
  /\ (IF req[c].args.some THEN req[c].args.v ELSE <<>>) = expected
  /\ spawned[c] > 0 =>
       cmd[c] = <<NpxPath, "-y", "@boltzpay/cli", req[c].tool>>
                \o expected \o <<"--json">>

\* C9 as stated: the argument list of each tool is the documented mapping,
\* with ["--chain", chain] and ["--category", category] appended exactly
\* when chain and category are provided (not None), and the command line is
\* the same in both packages and both modes.
C9_ArgsWhenProvided ==
  \A c \in Calls :
    ViaTool(c) =>
      ToolArgsAre(c, DocumentedArgs(req[c].tool, req[c].inp,
                                    req[c].inp.chain.some,
                                    req[c].inp.category.some))

\* C9 as amended: the same, with ["--chain", chain] and ["--category",
\* category] appended exactly when chain and category are provided and not
\* the empty string.
C9_ArgsWhenNonEmpty ==
  \A c \in Calls :
    ViaTool(c) =>
      ToolArgsAre(c, DocumentedArgs(req[c].tool, req[c].inp,
                    req[c].inp.chain.some /\ req[c].inp.chain.v # "",
                    req[c].inp.category.some /\ req[c].inp.category.v # ""))

\* a fetch with a chain has spawned
C9_Witness ==
  \E c \in Calls :
    /\ ViaTool(c) /\ req[c].tool = "fetch" /\ spawned[c] = 1
    /\ req[c].inp.chain = Some("svm")
    /\ cmd[c] = <<NpxPath, "-y", "@boltzpay/cli", "fetch", "https://x/api",
                  "--method", req[c].inp.method, "--chain", "svm", "--json">>

\* C10: for every Bridge error, the text the user sees (the string a CrewAI
\* tool returns, the string form of the exception a LangChain tool raises)
\* includes both the code and the message of the error.
C10_ErrorTextHasCodeAndMessage ==
  \A c \in Calls :
    (Done(c) /\ ViaTool(c) /\ IsBridgeError(outcome[c])) =>
      LET text == IF toolOut[c].tag = "return" THEN toolOut[c].text
                  ELSE toolOut[c].str
      IN /\ Contains(text, PyStr(outcome[c].code))
         /\ Contains(text, PyStr(outcome[c].message))

\* C11: the error convention is fixed per package: a CrewAI tool turns every
\* BoltzPayBridgeError, the NodeNotFound and Timeout subclasses included,
\* into the returned string "Error (<code>): <message>" and never raises
\* it; a LangChain tool lets the error through with its class, code and
\* message unchanged and returns a string only when the bridge returned.
C11_ErrorConvention ==
  \A c \in Calls :
    (Done(c) /\ ViaTool(c)) =>
      LET o == outcome[c]
          t == toolOut[c]
      IN /\ (req[c].pkg = "crewai" /\ IsBridgeError(o)) =>
              /\ t.tag = "return"
              /\ t.text = <<"Error (">> \o PyStr(o.code) \o <<"): ">>
                          \o PyStr(o.message)
         /\ (req[c].pkg = "crewai" /\ t.tag = "raise") => ~IsBridgeError(t)
         /\ (req[c].pkg = "langchain" /\ IsBridgeError(o)) =>
              /\ t.tag = "raise"
              /\ t.cls = o.cls /\ t.code = o.code /\ t.message = o.message
         /\ (req[c].pkg = "langchain" /\ t.tag = "return") =>
              /\ o.tag = "return"
              /\ t.text = JsonDumps(o.val)

\* a CrewAI tool returned the string of a timeout
C11_Witness ==
  \E c \in Calls :
    /\ Done(c) /\ ViaTool(c) /\ req[c].pkg = "crewai"
    /\ outcome[c].tag = "raise"
    /\ outcome[c].cls = "BoltzPayTimeoutError"
    /\ toolOut[c] = ToolReturns(<<"Error (", "TIMEOUT", "): ",
                      "CLI command timed out after ", "3", "0", "s">>)

\* C12: within each package async_run_cli has the semantics of run_cli:
\* for the same request and the same behaviour of launcher, spawn and child
\* the two return equal values or raise errors of the same class with equal
\* code and message.  So how a call ends does not depend on its mode: a
\* missing launcher gives NODE_NOT_FOUND, an expired timeout gives the
\* TIMEOUT error, and for a child that exited with a given status, stdout
\* and stderr both functions give the same outcome.
C12_AsyncSameAsSync ==
  \A c \in Calls :
    /\ LauncherMissing(c) =>
         outcome[c] = BoltzPayNodeNotFoundError(req[c].pkg)
    /\ (Done(c) /\ TimerFired(c)) =>
         outcome[c] = BoltzPayTimeoutError(req[c].pkg, req[c].timeout)
    /\ Completed(c) =>
         LET sync == BridgeResult(req[c].pkg, "sync", proc[c].returncode,
                                  proc[c].stdout, proc[c].stderr)
             async == BridgeResult(req[c].pkg, "async", proc[c].returncode,
                                   proc[c].stdout, proc[c].stderr)
         IN outcome[c] \in {sync, async} /\ sync = async

\* what the bridge of the call parses: the captured stdout, stripped first
\* by the langchain bridge
ParsedStdout(c) ==
  JsonLoads(IF req[c].pkg = "langchain" THEN Strip(StdoutText(c))
            ELSE StdoutText(c))

\* the error member of the JSON object on stdout, if it is an object
EnvelopeErrors(c) ==
  IF ~Completed(c) THEN {}
  ELSE LET parsed == ParsedStdout(c) IN
       IF parsed.ok /\ parsed.val.k = "obj"
            /\ HasKey(parsed.val.m, <<"error">>)
            /\ Lookup(parsed.val.m, <<"error">>).k = "obj"
         THEN {Lookup(parsed.val.m, <<"error">>)}
         ELSE {}

\* the code values the child's own envelope carries as error.code
EnvelopeCodes(c) ==
  {Lookup(e.m, <<"code">>) : e \in {x \in EnvelopeErrors(c) :
                                        HasKey(x.m, <<"code">>)}}

BridgeCodes ==
  {Code("NODE_NOT_FOUND"), Code("TIMEOUT"), Code("CLI_ERROR"),
   Code("PARSE_ERROR")}

\* C13 as stated: the code of every BoltzPayBridgeError is NODE_NOT_FOUND,
\* TIMEOUT, CLI_ERROR or PARSE_ERROR, or is the value of error.code in the
\* envelope the child printed; the Bridge invents no other code.
C13_CodesOfTheTaxonomy ==
  \A c \in Calls :
    (Done(c) /\ IsBridgeError(outcome[c])) =>
      outcome[c].code \in BridgeCodes \cup EnvelopeCodes(c)

\* C13 as amended: the code is NODE_NOT_FOUND, TIMEOUT, CLI_ERROR or
\* PARSE_ERROR, or the value of error.code in the envelope the child
\* printed, or UNKNOWN, which only the langchain bridge uses and only for
\* an object with success false that carries no error.code.
C13_CodesWithUnknown ==
  \A c \in Calls :
    (Done(c) /\ IsBridgeError(outcome[c])) =>
      \/ outcome[c].code \in BridgeCodes
      \/ outcome[c].code \in EnvelopeCodes(c)
      \/ /\ outcome[c].code = Code("UNKNOWN")
         /\ req[c].pkg = "langchain"
         /\ Completed(c)
         /\ LET parsed == ParsedStdout(c) IN
            parsed.ok /\ IsErrorEnvelope(parsed.val)
         /\ EnvelopeCodes(c) = {}

\* a langchain call ended with UNKNOWN for {"success": false, "error":
\* {"message": ...}}, keeping the message
C13_Witness ==
  \E c \in Calls :
    /\ Done(c) /\ IsBridgeError(outcome[c])
    /\ outcome[c].code = Code("UNKNOWN")
    /\ outcome[c].message = Code("only a message")

\* how a call can end, going by its own request, launcher, child and output
OwnOutcomes(c) ==
  IF ~npx[c].some THEN {BoltzPayNodeNotFoundError(req[c].pkg)}
  ELSE IF child[c] = "none"
    THEN {SpawnFailure(req[c].pkg, r) : r \in SpawnResults \ {"ok"}}
  ELSE IF proc[c].exited
    THEN {BridgeResult(req[c].pkg, req[c].mode, proc[c].returncode,
                       proc[c].stdout, proc[c].stderr)}
  ELSE {BoltzPayTimeoutError(req[c].pkg, req[c].timeout)}
         \cup (IF req[c].mode = "async"
                 THEN {Escapes("ProcessLookupError")} ELSE {})

\* the calls that found the launcher and went on to spawn
Launched == {c \in Calls : npx[c].some /\ pc[c] \notin {"idle", "find_npx",
                                                        "spawn"}}

\* C14: when calls run concurrently, under every interleaving each call
\* spawns for itself, once; its command line and its outcome follow from
\* its own request, its own launcher lookup and its own child alone; a
\* child is killed only by the call that spawned it, after that call's own
\* timeout; and there are as many spawns as calls that found the launcher.
C14_CallsAreIndependent ==
  /\ spawns = Cardinality(Launched)
  /\ calls = Cardinality({c \in Calls : pc[c] # "idle"})
  /\ \A c \in Calls :
       /\ spawned[c] = (IF c \in Launched THEN 1 ELSE 0)
       /\ child[c] # "none" => c \in Launched
       /\ c \in Launched =>
            cmd[c] = <<npx[c].v, "-y", "@boltzpay/cli", req[c].command>>
                     \o (IF req[c].args.some THEN req[c].args.v ELSE <<>>)
                     \o <<"--json">>
       /\ child[c] = "killed" => pc[c] = "reap"
       /\ child[c] \in {"killed", "dead"} => TimerFired(c)
       /\ (pc[c] = "wait" /\ spawned[c] = 1) => child[c] = "running"
       /\ Done(c) => outcome[c] \in OwnOutcomes(c)

\* one call has killed its child after its timeout while the child of
\* another call, spawned as well, is still running
C14_Witness ==
  \E c, d \in Calls :
    /\ c # d
    /\ child[c] = "killed" /\ pc[c] = "reap"
    /\ child[d] = "running" /\ pc[d] = "wait"
    /\ req[c] # req[d]
    /\ spawns = 2

Operations ==
  {"fetch", "check", "quote", "discover", "budget", "history", "wallet"}

\* C15: in each package the seven tools have pairwise distinct names, each
\* name is "boltzpay_" followed by one of the seven operations, and a tool
\* calls the Bridge with the operation of its own name as the command, so
\* that the command of the process spawned for a tool is that operation.
C15_NamesAndCommands ==
  \A c \in Calls :
    ViaTool(c) =>
      /\ \A other \in Tools \ {req[c].tool} :
           ToolName(req[c].pkg, other) # ToolName(req[c].pkg, req[c].tool)
      /\ req[c].command \in Operations
      /\ ToolName(req[c].pkg, req[c].tool) = "boltzpay_" \o req[c].command
      /\ spawned[c] > 0 => cmd[c][4] = req[c].command

\* the process of the CrewAI quote tool has been spawned
C15_Witness ==
  \E c \in Calls :
    /\ ViaTool(c) /\ req[c].pkg = "crewai" /\ spawned[c] = 1
    /\ ToolName(req[c].pkg, req[c].tool) = "boltzpay_quote"
    /\ cmd[c][4] = "quote"

\* C16: for a child that exits with a non-zero status and prints a
\* well-formed success envelope, the packages differ: the langchain bridge
\* returns the parsed envelope, the crewai bridge raises CLI_ERROR with the
\* stderr text as message, or "Unknown error" when stderr is empty.
C16_NonZeroExitWithSuccessBody ==
  \A c \in Calls :
    LET parsed == JsonLoads(StdoutText(c)) IN
    (Completed(c) /\ proc[c].returncode # 0 /\ parsed.ok
       /\ IsWellFormedSuccess(parsed.val)) =>
      IF req[c].pkg = "langchain"
        THEN outcome[c] = Returns(parsed.val)
        ELSE /\ outcome[c].tag = "raise"
             /\ outcome[c].cls = "BoltzPayBridgeError"
             /\ outcome[c].code = Code("CLI_ERROR")
             /\ outcome[c].message =
                  JStr(IF StderrText(c) # <<>> THEN StderrText(c)
                       ELSE <<"Unknown error">>)

\* a crewai call raised CLI_ERROR with the newline that was all of stderr
\* as its message, for a success envelope printed with exit status 1
C16_Witness ==
  \E c \in Calls :
    /\ Completed(c) /\ req[c].pkg = "crewai" /\ proc[c].returncode = 1
    /\ JsonLoads(StdoutText(c)).ok
    /\ IsWellFormedSuccess(JsonLoads(StdoutText(c)).val)
    /\ proc[c].stderr = <<"\n">>
    /\ outcome[c].tag = "raise"
    /\ outcome[c].message = JStr(<<"\n">>)

\* C17: in async_run_cli, once the wait has exceeded the timeout, the kill
\* is issued, the end of the child is awaited, and only then the TIMEOUT
\* error is raised: the call never shows the TIMEOUT error while its child
\* still runs, every timeout path goes through the kill and the wait, and
\* the call then ends with the TIMEOUT error and with no other failure.
C17_KillReapThenTimeout ==
  \A c \in Calls :
    (req[c].via # "none" /\ req[c].mode = "async" /\ TimerFired(c)) =>
      /\ pc[c] = "reap" => child[c] \in {"killed", "dead"}
      /\ Done(c) =>
           /\ child[c] = "dead"
           /\ outcome[c] =
                BoltzPayTimeoutError(req[c].pkg, req[c].timeout)

\* the defaults of a missing error.code and a missing error.message
DefaultCode == JStr(<<"UNKNOWN">>)
DefaultMessage == JStr(<<"Unknown CLI error">>)

\* an error object that lacks code, message or both
LacksMember(error) ==
  ~HasKey(error.m, <<"code">>) \/ ~HasKey(error.m, <<"message">>)

\* C18: in both packages, when stdout parses to an object with success false
\* whose error object lacks code and/or message, the call fails with a
\* BoltzPayBridgeError whose missing code is "UNKNOWN" and whose missing
\* message is "Unknown CLI error", a member that is present being kept as it
\* is
C18_MissingMembersDefault ==
  \A c \in Calls :
    Completed(c) =>
      LET parsed == ParsedStdout(c) IN
      (parsed.ok /\ IsErrorEnvelope(parsed.val)) =>
        \A error \in EnvelopeErrors(c) :
          LacksMember(error) =>
            outcome[c] =
              BoltzPayBridgeError(req[c].pkg,
                DictGet(error, <<"code">>, DefaultCode),
                DictGet(error, <<"message">>, DefaultMessage))

ParseErrorCode == JStr(<<"PARSE_ERROR">>)

IsParseError(o) == IsBridgeError(o) /\ o.code = ParseErrorCode

\* the external program's own envelope carries the code PARSE_ERROR
ForwardsParseError(c) == ParseErrorCode \in EnvelopeCodes(c)

\* C19 as stated: the crewai bridge raises PARSE_ERROR exactly when the
\* process output parses as JSON but is not a usable envelope, and the
\* langchain bridge never raises PARSE_ERROR (a code PARSE_ERROR that the
\* external program itself put in its envelope is left aside).
C19_ParseErrorWhenNoEnvelope ==
  \A c \in Calls :
    (Completed(c) /\ ~ForwardsParseError(c)) =>
      IF req[c].pkg = "crewai"
        THEN LET parsed == ParsedStdout(c) IN
             IsParseError(outcome[c]) <=>
               /\ parsed.ok
               /\ ~IsWellFormedSuccess(parsed.val)
               /\ ~IsWellFormedError(parsed.val)
        ELSE ~IsParseError(outcome[c])

\* the PARSE_ERROR of the crewai bridge for the text it has of stdout
CrParseError(stdout) ==
  BoltzPayBridgeError("crewai", ParseErrorCode,
    JStr(<<"Invalid JSON output: ">> \o Prefix(stdout, ParseErrorPrefixLen)))

\* C19 as amended: the crewai bridge raises PARSE_ERROR exactly when the
\* process exited with status 0 and its stdout is not valid JSON, with the
\* message "Invalid JSON output: " and the first 200 characters of stdout;
\* stdout that parses is returned whatever its shape.  The langchain bridge
\* creates no PARSE_ERROR.  Besides, either bridge ends with the code
\* PARSE_ERROR only by forwarding it from the external program's envelope.
C19_ParseErrorWhenNotJson ==
  \A c \in Calls :
    Done(c) =>
      LET notJsonAtExitZero ==
            /\ req[c].pkg = "crewai"
            /\ Completed(c)
            /\ proc[c].returncode = 0
            /\ ~JsonLoads(StdoutText(c)).ok
      IN /\ notJsonAtExitZero => outcome[c] = CrParseError(StdoutText(c))
         /\ IsParseError(outcome[c]) =>
              \/ notJsonAtExitZero
              \/ Completed(c) /\ ForwardsParseError(c)
         /\ (Completed(c) /\ req[c].pkg = "crewai" /\ proc[c].returncode = 0
               /\ JsonLoads(StdoutText(c)).ok) =>
              outcome[c] = Returns(JsonLoads(StdoutText(c)).val)

\* a crewai call whose child exited with status 0 and printed text that is
\* not JSON ended with PARSE_ERROR
C19_Witness ==
  \E c \in Calls :
    /\ Completed(c) /\ req[c].pkg = "crewai"
    /\ proc[c].returncode = 0
    /\ StdoutText(c) = <<"not json at all">>
    /\ outcome[c] = CrParseError(<<"not json at all">>)

\* how the call would have ended had its child exited with another status
\* after writing the same output
OutcomeAtStatus(c, returncode) ==
  BridgeResult(req[c].pkg, req[c].mode, returncode, proc[c].stdout,
               proc[c].stderr)

IsCliError(o) == IsBridgeError(o) /\ o.code = Code("CLI_ERROR")

\* C20: in the langchain bridge, two calls whose children write the same
\* stdout and stderr but exit with different statuses end alike whenever
\* stdout parses as JSON; the exit status changes the outcome only when
\* stdout is not JSON and stderr is empty, and then only the message of the
\* CLI_ERROR.
C20_ExitStatusOnlyInFallback ==
  \A c \in Calls :
    (Completed(c) /\ req[c].pkg = "langchain") =>
      \A returncode \in ReturnCodes \ {proc[c].returncode} :
        LET other == OutcomeAtStatus(c, returncode) IN
        IF Strip(StderrText(c)) = <<>> /\ ~ParsedStdout(c).ok
          THEN /\ IsCliError(outcome[c])
               /\ IsCliError(other)
               /\ other.message # outcome[c].message
               /\ outcome[c].message =
                    JStr(<<"CLI exited with code ">>
                         \o Dec(proc[c].returncode))
          ELSE other = outcome[c]

\* a langchain call whose child exited with status 1 returned the success
\* envelope on stdout, as it would have at status 0
C20_Witness ==
  \E c \in Calls :
    /\ Completed(c) /\ req[c].pkg = "langchain"
    /\ proc[c].returncode = 1
    /\ outcome[c].tag = "return"
    /\ IsWellFormedSuccess(outcome[c].val)
    /\ OutcomeAtStatus(c, 0) = outcome[c]

\* the error member of a parsed value when it is an object that holds both
\* code and message, as a set of at most one element
FullErrors(v) ==
  IF v.k = "obj" /\ HasKey(v.m, <<"error">>)
       /\ Lookup(v.m, <<"error">>).k = "obj"
       /\ HasKey(Lookup(v.m, <<"error">>).m, <<"code">>)
       /\ HasKey(Lookup(v.m, <<"error">>).m, <<"message">>)
    THEN {Lookup(v.m, <<"error">>)}
    ELSE {}

\* C21: in the crewai bridge the exit status gates the outcome.  A value is
\* returned only after exit status 0 with stdout that is valid JSON, and
\* then whatever its success member says; exit status 0 with stdout that is
\* not JSON raises PARSE_ERROR; a non-zero exit status raises, with the
\* envelope's own code and message when stdout is a JSON object whose error
\* object holds both, and with CLI_ERROR otherwise.
C21_ExitStatusGates ==
  \A c \in Calls :
    (Done(c) /\ req[c].pkg = "crewai") =>
      /\ outcome[c].tag = "return" =>
           Completed(c) /\ proc[c].returncode = 0
      /\ Completed(c) =>
           LET parsed == JsonLoads(StdoutText(c)) IN
           IF proc[c].returncode = 0
             THEN IF parsed.ok
                    THEN outcome[c] = Returns(parsed.val)
                    ELSE /\ outcome[c].tag = "raise"
                         /\ outcome[c].cls = "BoltzPayBridgeError"
                         /\ outcome[c].code = Code("PARSE_ERROR")
             ELSE /\ outcome[c].tag = "raise"
                  /\ outcome[c].cls = "BoltzPayBridgeError"
                  /\ IF parsed.ok /\ FullErrors(parsed.val) # {}
                       THEN \A error \in FullErrors(parsed.val) :
                              /\ outcome[c].code =
                                   Lookup(error.m, <<"code">>)
                              /\ outcome[c].message =
                                   Lookup(error.m, <<"message">>)
                       ELSE outcome[c].code = Code("CLI_ERROR")

\* a crewai call whose child exited with a non-zero status and printed an
\* error envelope ended with the envelope's code and message
C21_Witness ==
  \E c \in Calls :
    /\ Completed(c) /\ req[c].pkg = "crewai"
    /\ proc[c].returncode # 0
    /\ outcome[c].tag = "raise"
    /\ outcome[c].code = Code("AUTH_MISSING")
    /\ outcome[c].message = Code("Coinbase credentials not configured")

\* the call is under way
Started(c) == pc[c] \notin {"idle", "done"}

\* the call ended as a bridge call may: a value or a BoltzPayBridgeError
EndedWell(c) ==
  Done(c) /\ (outcome[c].tag = "return" \/ IsBridgeError(outcome[c]))

\* after its timeout the call is at the kill, which it can always make, or
\* at the wait for the killed child, which that child's end alone completes
WaitsForKillOnly(c) ==
  /\ pc[c] = "kill" => child[c] \in {"running", "dead"}
  /\ pc[c] = "reap" => child[c] \in {"killed", "dead"}

\* C22: every bridge call terminates.  Given that a running child exits or
\* the timeout fires, and that a killed child ends, every run_cli and
\* async_run_cli call eventually returns a value or raises a
\* BoltzPayBridgeError, and once the timeout has fired the call waits for
\* nothing but the completion of the kill.
C22_EveryCallTerminates ==
  /\ \A c \in Calls : Started(c) ~> EndedWell(c)
  /\ [](\A c \in Calls : WaitsForKillOnly(c))

\* what does hold under the same fairness: every call ends, one way or
\* another, and waits for nothing but the kill after its timeout
EveryCallEnds ==
  /\ \A c \in Calls : Started(c) ~> Done(c)
  /\ [](\A c \in Calls : WaitsForKillOnly(c))

====
